---- MODULE Spec2Model ----
(***************************************************************************)
(* Statistical core of "fit_searev_data.py": empirical autocovariance      *)
(* (acov, acf), analytic ARMA autocovariance (arma_acov, arma_acf), the    *)
(* AR fit by autocorrelation matching (ar_acf_fit), the AR(2) to           *)
(* state-space conversion (T_AR2) and the prediction / simulation          *)
(* trajectory loop.                                                        *)
(*                                                                         *)
(* Numbers.  A Python/numpy float is modelled as an extended rational      *)
(* <<n, d>>: d > 0 and gcd(n, d) = 1 for a finite value, <<1, 0>> for      *)
(* +inf, <<-1, 0>> for -inf and <<0, 0>> for nan (numpy array arithmetic   *)
(* does not raise on a division by zero, it yields inf or nan).  Finite    *)
(* arithmetic is exact: rounding and the sign of zero are not modelled.    *)
(*                                                                         *)
(* Python sequences are 0-based; the model keeps TLA+ sequences (1-based)  *)
(* and every index taken from the source is shifted by one where it is     *)
(* used.                                                                   *)
(***************************************************************************)
EXTENDS Integers, Sequences, FiniteSets, TLC

VARIABLES
    pc,        \* position in the code being run
    ret,       \* outcome of the call: [status, val]
    x,         \* sample sequence (argument x of acov, acf, ar_acf_fit)
    maxlags,   \* argument maxlags (acov, acf, arma_acov, ar_acf_fit)
    i,         \* loop variable i (arma_acov line 141, script line 275)
    ar_coef,   \* ar_coef (ar_acf_fit local, then script global)
    innov_var, \* innov_var (arma_acov argument, script global)
    \* acov / acf
    fn,        \* the function under call: "acov" or "acf"
    lagsArg,   \* argument lags: [none |-> TRUE] for None, else the lags given
    lags,      \* local lags of acov, once resolved
    acov_x,    \* local acov_x of acov
    li,        \* number of iterations of "for h in lags" completed
    \* arma_acov
    model,     \* argument model: [ar, ma]
    cov,       \* cov_n (line 130), then cov (line 136)
    \* ar_acf_fit
    p,         \* argument p
    X,         \* ar_acf_fit: regressor matrix X; script: X = vstack((speed, accel))
    y,         \* regression target y
    ar_coef0,  \* least-squares seed
    res_var,   \* residual variance
    \* state-space part of the script
    speed,     \* speed column of the data
    accel,     \* backward derivative of speed
    dt,        \* time step
    T,         \* transition matrix (rows)
    X_prev,    \* prediction trajectory, a 2 x (maxlags+1) array
    X_traj,    \* simulated trajectory, a 2 x (maxlags+1) array
    err_sim    \* simulated innovations, one vector per step

acovVars == <<fn, lagsArg, lags, acov_x, li>>
armaVars == <<model, cov>>
fitVars == <<p, X, y, ar_coef0, res_var>>
ssVars == <<speed, accel, dt, T, X_prev, X_traj, err_sim>>

vars == <<pc, ret, x, maxlags, i, ar_coef, innov_var,
          acovVars, armaVars, fitVars, ssVars>>


---------------------------------------------------------------------------
(* Evaluation helpers: F applied to the value of e, e being evaluated      *)
(* once (an intermediate result that is used several times).               *)

Let1(F(_), e) == CHOOSE r \in {F(v) : v \in {e}} : TRUE

Let2(F(_, _), e1, e2) == CHOOSE r \in {F(v1, v2) : v1 \in {e1}, v2 \in {e2}} : TRUE

\* A sequence given by a function, as an explicit tuple
Tup(s) == SubSeq(s, 1, Len(s))

---------------------------------------------------------------------------
(* Extended rational arithmetic *)

Abs(n) == IF n < 0 THEN -n ELSE n

Sign(n) == IF n < 0 THEN -1 ELSE IF n > 0 THEN 1 ELSE 0

RECURSIVE GCD(_, _)
GCD(a, b) == IF b = 0 THEN a ELSE GCD(b, a % b)

Norm(n, d) ==
    IF d = 0 THEN <<Sign(n), 0>>
    ELSE LET g == GCD(Abs(n), Abs(d))
         IN  <<Sign(d) * (n \div g), Abs(d) \div g>>

Rat(n, d) == Norm(n, d)

Zero == <<0, 1>>
One == <<1, 1>>
NaN == <<0, 0>>
Inf == <<1, 0>>

IsFinite(a) == a[2] # 0

RNeg(a) == <<-a[1], a[2]>>

\* inf + inf = inf, inf - inf = nan; every other case on the least common
\* denominator (a zero denominator carries inf and nan through)
RAdd(a, b) ==
    IF a[2] = 0 /\ b[2] = 0
    THEN IF a = b THEN a ELSE NaN
    ELSE LET g == GCD(a[2], b[2])
         IN  Norm(a[1] * (b[2] \div g) + b[1] * (a[2] \div g), (a[2] \div g) * b[2])

RSub(a, b) == RAdd(a, RNeg(b))

\* 0 * inf = nan
RMul(a, b) == Norm(a[1] * b[1], a[2] * b[2])

\* x / 0 = +-inf for x # 0, 0 / 0 = nan, x / inf = 0
RDiv(a, b) == Norm(a[1] * b[2] * Sign(b[1] + IF b = Zero THEN 1 ELSE 0),
                   a[2] * Abs(b[1]))

RECURSIVE FracLeq(_, _, _, _)
\* n1/d1 <= n2/d2 for n1, n2 >= 0 and d1, d2 > 0, by the integer parts and
\* then the inverted fractional parts (no product is formed)
FracLeq(n1, d1, n2, d2) ==
    IF n1 \div d1 # n2 \div d2 THEN n1 \div d1 < n2 \div d2
    ELSE IF n1 % d1 = 0 THEN TRUE
    ELSE IF n2 % d2 = 0 THEN FALSE
    ELSE FracLeq(d2, n2 % d2, d1, n1 % d1)

\* a <= b for finite a and b
RLeq(a, b) ==
    IF a[1] < 0
    THEN IF b[1] < 0 THEN FracLeq(-b[1], b[2], -a[1], a[2]) ELSE TRUE
    ELSE IF b[1] < 0 THEN FALSE ELSE FracLeq(a[1], a[2], b[1], b[2])

RECURSIVE RSumTo(_, _)
RSumTo(s, k) == IF k = 0 THEN Zero ELSE RAdd(RSumTo(s, k - 1), s[k])

\* np.sum(s)
RSum(s) == Let1(LAMBDA v : RSumTo(v, Len(v)), Tup(s))

---------------------------------------------------------------------------
(* Python / numpy helpers *)

Min(a, b) == IF a < b THEN a ELSE b
Max(a, b) == IF a > b THEN a ELSE b

\* A slice bound as Python normalises it against a length L.
SliceBound(k, L) == IF k < 0 THEN Max(k + L, 0) ELSE Min(k, L)

\* s[lo:hi] of Python, lo and hi 0-based integers (negative: from the end).
PySlice(s, lo, hi) ==
    SubSeq(s, SliceBound(lo, Len(s)) + 1, SliceBound(hi, Len(s)))

\* range(n) of Python: <<0, 1, ..., n-1>>, empty when n <= 0.
PyRange(n) == Tup([k \in 1..Max(n, 0) |-> k - 1])

\* np.zeros(n)
Zeros(n) == Tup([k \in 1..n |-> Zero])

\* s[::-1]
Reverse(s) == Tup([k \in 1..Len(s) |-> s[Len(s) + 1 - k]])

Ok(v) == [status |-> "ok", val |-> v]
Raise(e) == [status |-> e, val |-> <<>>]
NoRet == [status |-> "none", val |-> <<>>]

\* a * b on 1-d arrays: elementwise, a length-1 operand being broadcast;
\* other length mismatches raise ValueError.
ArrayMul(a, b) ==
    IF Len(a) = Len(b) THEN Ok(Tup([k \in 1..Len(a) |-> RMul(a[k], b[k])]))
    ELSE IF Len(a) = 1 THEN Ok(Tup([k \in 1..Len(b) |-> RMul(a[1], b[k])]))
    ELSE IF Len(b) = 1 THEN Ok(Tup([k \in 1..Len(a) |-> RMul(a[k], b[1])]))
    ELSE Raise("ValueError")

\* Whether a[k] is a valid index of an array of length L (negative k wraps).
IndexOk(k, L) == -L <= k /\ k < L

\* The 1-based position that Python index k denotes in a length-L array.
Pos(k, L) == IF k < 0 THEN k + L + 1 ELSE k + 1

---------------------------------------------------------------------------
(* acov, acf: lines 64-83 *)

\* An optional argument: None (for a sequence, for an integer), or a value
None == [none |-> TRUE, v |-> <<>>]
NoneInt == [none |-> TRUE, v |-> 0]
Given(a) == [none |-> FALSE, v |-> a]

\* lines 68-69: the lags iterated over
ResolveLags(ml, la) == IF la.none THEN PyRange(ml + 1) ELSE la.v

\* line 73, right-hand side: np.sum(x[h:]*x[:N-h])/N
LagProduct(xs, h) ==
    Let1(LAMBDA prod :
            IF prod.status = "ok"
            THEN Ok(<<RDiv(RSum(prod.val), Rat(Len(xs), 1))>>)
            ELSE prod,
         ArrayMul(PySlice(xs, h, Len(xs)), PySlice(xs, 0, Len(xs) - h)))

\* line 73, the whole statement acov_x[h] = ... on the array ax
AcovAssign(xs, ax, h) ==
    Let1(LAMBDA rhs :
            IF rhs.status # "ok" THEN rhs
            ELSE IF ~IndexOk(h, Len(ax)) THEN Raise("IndexError")
            ELSE Ok([ax EXCEPT ![Pos(h, Len(ax))] = rhs.val[1]]),
         LagProduct(xs, h))

\* lines 72-74: the loop from its k-th iteration on, then the return
RECURSIVE AcovLoop(_, _, _, _)
AcovLoop(xs, ls, ax, k) ==
    IF k >= Len(ls) THEN Ok(ax)
    ELSE Let1(LAMBDA r :
                 IF r.status = "ok" THEN AcovLoop(xs, ls, r.val, k + 1) ELSE r,
              AcovAssign(xs, ax, ls[k + 1]))

\* acov(x, maxlags, lags) as a function
Acov(xs, ml, la) ==
    Let1(LAMBDA ls : AcovLoop(xs, ls, Zeros(Len(ls)), 0), ResolveLags(ml, la))

\* NormalizeLag0 dividing by the last entry instead of entry 0
NormalizeLagLast(ax) ==
    IF Len(ax) = 0 THEN Raise("IndexError")
    ELSE Ok(Tup([k \in 1..Len(ax) |-> RDiv(ax[k], ax[Len(ax)])]))

\* line 82 (and line 151): acov_x/acov_x[0]
NormalizeLag0(ax) ==
    IF Len(ax) = 0 THEN Raise("IndexError")
    ELSE Ok(Tup([k \in 1..Len(ax) |-> RDiv(ax[k], ax[1])]))

\* acf(x, maxlags, lags) as a function
Acf(xs, ml, la) ==
    Let1(LAMBDA a : IF a.status = "ok" THEN NormalizeLag0(a.val) ELSE a,
         Acov(xs, ml, la))

\* Values of the variables a part of the program does not use
AcovIdle ==
    /\ fn = "none"
    /\ lagsArg = [none |-> TRUE, v |-> <<>>]
    /\ lags = <<>>
    /\ acov_x = <<>>
    /\ li = 0

ArmaIdle ==
    /\ model = [ar |-> <<>>, ma |-> <<>>]
    /\ cov = <<>>

FitIdle ==
    /\ p = 0
    /\ X = <<>>
    /\ y = <<>>
    /\ ar_coef0 = <<>>
    /\ res_var = Zero

SSIdle ==
    /\ speed = <<>>
    /\ accel = <<>>
    /\ dt = One
    /\ T = <<>>
    /\ X_prev = <<>>
    /\ X_traj = <<>>
    /\ err_sim = <<>>

AcovEnter ==
    /\ pc = "acov_entry"
    /\ lags' = ResolveLags(maxlags, lagsArg)
    /\ acov_x' = Zeros(Len(ResolveLags(maxlags, lagsArg)))
    /\ li' = 0
    /\ pc' = "acov_loop"
    /\ UNCHANGED <<fn, x, maxlags, lagsArg, ret, i, ar_coef, innov_var, armaVars, fitVars, ssVars>>

AcovIter ==
    /\ pc = "acov_loop"
    /\ li < Len(lags)
    /\ \E r \in {AcovAssign(x, acov_x, lags[li + 1])} :
           IF r.status = "ok"
           THEN /\ acov_x' = r.val
                /\ li' = li + 1
                /\ UNCHANGED <<pc, ret>>
           ELSE /\ ret' = r
                /\ pc' = "raised"
                /\ UNCHANGED <<acov_x, li>>
    /\ UNCHANGED <<fn, x, maxlags, lagsArg, lags, i, ar_coef, innov_var, armaVars, fitVars, ssVars>>

AcovReturn ==
    /\ pc = "acov_loop"
    /\ li = Len(lags)
    /\ IF fn = "acov"
       THEN ret' = Ok(acov_x) /\ pc' = "done"
       ELSE ret' = ret /\ pc' = "acf_norm"
    /\ UNCHANGED <<fn, x, maxlags, lagsArg, lags, acov_x, li, i, ar_coef, innov_var, armaVars, fitVars, ssVars>>

AcfNormalize ==
    /\ pc = "acf_norm"
    /\ ret' = NormalizeLag0(acov_x)
    /\ pc' = IF Len(acov_x) = 0 THEN "raised" ELSE "done"
    /\ UNCHANGED <<fn, x, maxlags, lagsArg, lags, acov_x, li, i, ar_coef, innov_var, armaVars, fitVars, ssVars>>

\* Bounds of the estimator's inputs
MaxN == 3
MaxLag == 4

SampleVals == {Rat(-1, 1), Zero, One, Rat(2, 1)}

Samples(lo, hi) == UNION {[1..n -> SampleVals] : n \in lo..hi}

\* Explicit lag lists: distinct lags within 0..N-1, in any order.
LagLists(N) ==
    {s \in UNION {[1..k -> 0..(N - 1)] : k \in 1..N} :
        \A a, b \in DOMAIN s : a # b => s[a] # s[b]}

MaxOf(s) == CHOOSE m \in {s[k] : k \in DOMAIN s} : \A k \in DOMAIN s : s[k] <= m

AcovInit ==
    /\ pc = "acov_entry"
    /\ fn \in {"acov", "acf"}
    /\ x \in Samples(1, MaxN)
    /\ \/ lagsArg = None /\ maxlags \in (-1)..MaxLag
       \/ \E ls \in LagLists(Len(x)) : lagsArg = Given(ls) /\ maxlags = MaxOf(ls)
    /\ lags = <<>>
    /\ acov_x = <<>>
    /\ li = 0
    /\ ret = NoRet
    /\ i = 0
    /\ ar_coef = <<>>
    /\ innov_var = One
    /\ ArmaIdle
    /\ FitIdle
    /\ SSIdle

AcovNext == AcovEnter \/ AcovIter \/ AcovReturn \/ AcfNormalize

SpecAcov == AcovInit /\ [][AcovNext]_vars

---------------------------------------------------------------------------
(* Properties of acov and acf *)

Finished == pc \in {"done", "raised"}

\* The estimator of the contract: (1/N) * sum over t = 0..N-h-1 of x[t]*x[t+h]
BiasedAcov(xs, h) ==
    RDiv(RSum([t \in 1..(Len(xs) - h) |-> RMul(xs[t], xs[t + h])]),
         Rat(Len(xs), 1))

\* A dense call acf(x, maxlag) with 0 <= maxlag < len(x) that has finished
DenseAcfFinished ==
    /\ Finished
    /\ fn = "acf"
    /\ lagsArg.none
    /\ 0 <= maxlags
    /\ maxlags < Len(x)

C8_InvalidLagError ==
    (Finished /\ lagsArg.none /\ (maxlags >= Len(x) \/ maxlags < 0)) =>
        ret.status = "InvalidLagError"

\* C9: called with an explicit list of distinct lags in 0..N-1, acov returns
\* one entry per requested lag, the j-th entry being the biased
\* autocovariance of x at the j-th requested lag.
C9_ExplicitLags ==
    (Finished /\ fn = "acov" /\ ~lagsArg.none) =>
        /\ ret.status = "ok"
        /\ Len(ret.val) = Len(lagsArg.v)
        /\ \A j \in 1..Len(lagsArg.v) : ret.val[j] = BiasedAcov(x, lagsArg.v[j])

---------------------------------------------------------------------------
(* Linear algebra used by arma_acov and ar_acf_fit; a matrix is the        *)
(* sequence of its rows.                                                   *)

NegSeq(s) == Tup([k \in 1..Len(s) |-> RNeg(s[k])])

ScaleSeq(s, c) == Tup([k \in 1..Len(s) |-> RMul(s[k], c)])

\* np.inner(a, b) for 1-d arrays of equal length
Inner(a, b) == RSum([k \in 1..Len(a) |-> RMul(a[k], b[k])])

MatVec(A, v) == Tup([r \in 1..Len(A) |-> Inner(A[r], v)])

\* sig.lfilter(b, a, xs): y[k] = (sum_j b[j]*xs[k-j] - sum_{j>=1} a[j]*y[k-j]) / a[0];
\* ys holds y[0..k-1]
LfilterNext(b, a, xs, ys) ==
    LET k == Len(ys)
        fir == RSum([j \in 1..Min(k + 1, Len(b)) |-> RMul(b[j], xs[k + 2 - j])])
        iir == RSum([j \in 1..Min(k, Len(a) - 1) |-> RMul(a[j + 1], ys[k + 1 - j])])
    IN  RDiv(RSub(fir, iir), a[1])

RECURSIVE LfilterFrom(_, _, _, _)
LfilterFrom(b, a, xs, ys) ==
    IF Len(ys) = Len(xs) THEN ys
    ELSE Let1(LAMBDA nx : LfilterFrom(b, a, xs, nx),
              Append(ys, LfilterNext(b, a, xs, ys)))

Lfilter(b, a, xs) ==
    Let2(LAMBDA vb, va : Let1(LAMBDA vx : LfilterFrom(vb, va, vx, <<>>), xs), b, a)

\* scipy.linalg.toeplitz(c, r): first column c, first row r (r[0] ignored)
Toeplitz(c, r) ==
    Tup([ii \in 1..Len(c) |->
        Tup([jj \in 1..Len(r) |-> IF ii >= jj THEN c[ii - jj + 1] ELSE r[jj - ii + 1]])])

RowScale(row, c) == Tup([jj \in 1..Len(row) |-> RDiv(row[jj], c)])

RowAxpy(row, f, piv) == Tup([jj \in 1..Len(row) |-> RSub(row[jj], RMul(f, piv[jj]))])

HasPivot(rows, k) == \E r \in k..Len(rows) : rows[r][k] # Zero

PivotRow(rows, k) ==
    CHOOSE r \in k..Len(rows) :
        rows[r][k] # Zero /\ \A q \in k..(r - 1) : rows[q][k] = Zero

\* One elimination step on the augmented rows: the pivot row pr is swapped
\* to row k and scaled (piv), column k is cleared from every other row.
Eliminate(rows, k, pr, piv) ==
    Tup([r \in 1..Len(rows) |->
           IF r = k THEN piv
           ELSE IF r = pr THEN RowAxpy(rows[k], rows[k][k], piv)
           ELSE RowAxpy(rows[r], rows[r][k], piv)])

ElimStep(rows, k) ==
    Let1(LAMBDA pr :
            Let1(LAMBDA piv : Eliminate(rows, k, pr, piv),
                 RowScale(rows[pr], rows[pr][k])),
         PivotRow(rows, k))

RECURSIVE GaussJordan(_, _)
GaussJordan(rows, k) ==
    IF k > Len(rows) THEN Ok(Tup([r \in 1..Len(rows) |-> rows[r][Len(rows) + 1]]))
    ELSE IF ~HasPivot(rows, k) THEN Raise("LinAlgError")
    ELSE Let1(LAMBDA nx : GaussJordan(nx, k + 1), ElimStep(rows, k))

\* np.linalg.solve(A, b) for a square A with finite entries: the solution
\* of A.v = b by elimination, LinAlgError when A is singular.
LinSolve(A, b) ==
    Let2(LAMBDA vA, vb :
            Let1(LAMBDA aug : GaussJordan(aug, 1),
                 Tup([r \in 1..Len(vA) |-> Append(vA[r], vb[r])])),
         A, b)

---------------------------------------------------------------------------
(* arma_acov, arma_acf: lines 87-152 *)

\* lines 100-105: impulse response h(0)..h(q)
ImpulseResponse(m) ==
    LET q == Len(m.ma)
        delta == Tup([k \in 1..(q + 1) |-> IF k = 1 THEN One ELSE Zero])
        num == <<One>> \o m.ma
        den == <<One>> \o NegSeq(m.ar)
    IN  Lfilter(num, den, delta)

\* line 109: n = max(p, q+1)
SolveOrder(m) == Max(Len(m.ar), Len(m.ma) + 1)

\* lines 111-115: right-hand side b
Rhs(m, iv) ==
    LET q == Len(m.ma)
        n == SolveOrder(m)
        num == <<One>> \o m.ma
        imp_res_rev == Reverse(ImpulseResponse(m)) \o Zeros(n)
    IN  Let1(LAMBDA b : ScaleSeq(PySlice(b, q, Len(b)), iv),
             Lfilter(num, <<One>>, imp_res_rev))

\* line 118-119: ar_coef_ext
ArCoefExt(m) ==
    Tup([k \in 1..SolveOrder(m) |-> IF k <= Len(m.ar) THEN m.ar[k] ELSE Zero])

\* lines 120-123: M = toeplitz(c, r)
ToeplitzOfModel(m) ==
    LET n == SolveOrder(m)
    IN  Let1(LAMBDA ext :
                Toeplitz(Tup([k \in 1..(n + 1) |->
                                 IF k = 1 THEN RNeg(ext[n]) ELSE Zero]),
                         NegSeq(Reverse(ext)) \o <<One>> \o Zeros(n)),
             ArCoefExt(m))

\* SystemMatrix without the folded addition of the negative lags:
\* A = hstack((M_0, M_pos))
SystemMatrixUnfolded(m) ==
    LET n == SolveOrder(m)
    IN  Let1(LAMBDA M :
                Tup([ii \in 1..(n + 1) |->
                       <<M[ii][n + 1]>> \o Tup([jj \in 1..n |-> M[ii][n + 1 + jj]])]),
             ToeplitzOfModel(m))

\* lines 125-127: A = hstack((M_0, M_pos + M_neg[:,::-1]))
SystemMatrix(m) ==
    LET n == SolveOrder(m)
    IN  Let1(LAMBDA M :
                Tup([ii \in 1..(n + 1) |->
                       <<M[ii][n + 1]>> \o
                       Tup([jj \in 1..n |->
                              RAdd(M[ii][n + 1 + jj], M[ii][n + 1 - jj])])]),
             ToeplitzOfModel(m))

\* line 130: cov_n
CovN(m, iv) == LinSolve(SystemMatrix(m), Rhs(m, iv))

\* lines 136-138: cov = zeros(maxlags+1) with the first n+1 lags pasted
Paste(cov_n, ml) == cov_n \o Zeros(ml + 1 - Len(cov_n))

\* ArFilter with the coefficients not reversed: np.inner(cov[i-p:i], ar_coef)
ArFilterUnreversed(cv, ar, k) == Inner(PySlice(cv, k - Len(ar), k), ar)

\* line 142, right-hand side: np.inner(cov[i-p:i], ar_coef[::-1])
ArFilter(cv, ar, k) == Inner(PySlice(cv, k - Len(ar), k), Reverse(ar))

\* lines 141-142: the loop from i = k on
RECURSIVE ExtendLoop(_, _, _, _)
ExtendLoop(cv, ar, k, ml) ==
    IF k >= ml + 1 THEN cv
    ELSE Let1(LAMBDA nx : ExtendLoop(nx, ar, k + 1, ml),
              [cv EXCEPT ![k + 1] = ArFilter(cv, ar, k)])

\* arma_acov(model, maxlags, innov_var) as a function
ArmaAcov(m, ml, iv) ==
    Let1(LAMBDA r :
            IF r.status # "ok" THEN r
            ELSE IF ml <= SolveOrder(m) THEN Ok(PySlice(r.val, 0, ml + 1))
            ELSE Ok(ExtendLoop(Paste(r.val, ml), m.ar, SolveOrder(m) + 1, ml)),
         CovN(m, iv))

\* arma_acf(model, maxlags) as a function
ArmaAcf(m, ml) ==
    Let1(LAMBDA a : IF a.status = "ok" THEN NormalizeLag0(a.val) ELSE a,
         ArmaAcov(m, ml, One))

\* lines 94-130
ArmaSolve ==
    /\ pc = "arma_entry"
    /\ \E r \in {CovN(model, innov_var)} :
           IF r.status = "ok"
           THEN cov' = r.val /\ pc' = "arma_solved" /\ ret' = ret
           ELSE cov' = cov /\ pc' = "raised" /\ ret' = r
    /\ UNCHANGED <<x, maxlags, i, ar_coef, innov_var, model, acovVars, fitVars, ssVars>>

\* lines 132-133
ArmaShortReturn ==
    /\ pc = "arma_solved"
    /\ maxlags <= SolveOrder(model)
    /\ ret' = Ok(PySlice(cov, 0, maxlags + 1))
    /\ pc' = "done"
    /\ UNCHANGED <<x, maxlags, i, ar_coef, innov_var, armaVars, acovVars, fitVars, ssVars>>

\* lines 136-138, and the loop variable set to its first value
ArmaPaste ==
    /\ pc = "arma_solved"
    /\ maxlags > SolveOrder(model)
    /\ cov' = Paste(cov, maxlags)
    /\ i' = SolveOrder(model) + 1
    /\ pc' = "arma_extend"
    /\ UNCHANGED <<ret, x, maxlags, ar_coef, innov_var, model, acovVars, fitVars, ssVars>>

\* lines 141-142: one iteration; i is the next value of the loop variable
ArmaExtend ==
    /\ pc = "arma_extend"
    /\ i < maxlags + 1
    /\ cov' = [cov EXCEPT ![i + 1] = ArFilter(cov, model.ar, i)]
    /\ i' = i + 1
    /\ UNCHANGED <<pc, ret, x, maxlags, ar_coef, innov_var, model, acovVars, fitVars, ssVars>>

\* line 144
ArmaReturn ==
    /\ pc = "arma_extend"
    /\ i = maxlags + 1
    /\ ret' = Ok(cov)
    /\ pc' = "done"
    /\ UNCHANGED <<x, maxlags, i, ar_coef, innov_var, armaVars, acovVars, fitVars, ssVars>>

\* Bounds of the models
MaxP == 2
MaxQ == 1
MaxArmaLag == 4

ArVals == {Rat(-1, 2), Zero, Rat(1, 3), Rat(1, 2), One}
MaVals == {Rat(-1, 1), Rat(1, 2)}
InnovVars == {One, Rat(2, 1)}

Coefs(vals, n) == UNION {[1..k -> vals] : k \in 0..n}

ArmaInit ==
    /\ pc = "arma_entry"
    /\ model \in [ar : Coefs(ArVals, MaxP), ma : Coefs(MaVals, MaxQ)]
    /\ maxlags \in 0..MaxArmaLag
    /\ innov_var \in InnovVars
    /\ cov = <<>>
    /\ i = 0
    /\ ret = NoRet
    /\ x = <<>>
    /\ ar_coef = <<>>
    /\ AcovIdle
    /\ FitIdle
    /\ SSIdle

ArmaNext == ArmaSolve \/ ArmaShortReturn \/ ArmaPaste \/ ArmaExtend \/ ArmaReturn

SpecArma == ArmaInit /\ [][ArmaNext]_vars

---------------------------------------------------------------------------
(* Properties of arma_acov *)

\* Determinant by expansion along the first row
DropAt(s, k) == SubSeq(s, 1, k - 1) \o SubSeq(s, k + 1, Len(s))

Minor(A, r, c) == Tup([ii \in 1..(Len(A) - 1) |-> DropAt(DropAt(A, r)[ii], c)])

RECURSIVE Det(_)
Det(A) ==
    IF Len(A) = 0 THEN One
    ELSE IF Len(A) = 1 THEN A[1][1]
    ELSE RSum([j \in 1..Len(A) |->
                 RMul(IF j % 2 = 1 THEN A[1][j] ELSE RNeg(A[1][j]),
                      Let1(LAMBDA mn : Det(mn), Minor(A, 1, j)))])

RECURSIVE RPow(_, _)
RPow(a, k) == IF k = 0 THEN One ELSE RMul(a, RPow(a, k - 1))

\* |a| < 1 for a finite a
AbsLessOne(a) == Abs(a[1]) < a[2]

\* A finished call on a pure AR(1) model, |phi| < 1, unit innovation variance
PureAR1Finished ==
    /\ Finished
    /\ Len(model.ar) = 1
    /\ Len(model.ma) = 0
    /\ AbsLessOne(model.ar[1])
    /\ innov_var = One

\* C1: for a pure AR(1) model (ar = [phi], ma = [], |phi| < 1) with unit
\* innovation variance, arma_acov returns phi^h / (1 - phi^2) at every lag
\* h in 0..maxlags, for the lags of the linear solve (h <= 1) and for those
\* of the recursive extension (h > 1).
C1_AR1ClosedForm ==
    PureAR1Finished =>
        /\ ret.status = "ok"
        /\ Len(ret.val) = maxlags + 1
        /\ \A h \in 0..maxlags :
              ret.val[h + 1] =
                  RDiv(RPow(model.ar[1], h), RSub(One, RPow(model.ar[1], 2)))

C1_Witness ==
    /\ PureAR1Finished
    /\ model.ar[1] = Rat(1, 2)
    /\ maxlags >= 3
    /\ ret.status = "ok"
    /\ ret.val[1] = Rat(4, 3)
    /\ ret.val[4] = Rat(1, 6)

\* sum over k = 1..p of ar_k * c[i-k], c indexed from lag 0
ArRecursion(c, ar, lag) ==
    RSum([k \in 1..Len(ar) |-> RMul(ar[k], c[lag - k + 1])])

---------------------------------------------------------------------------
(* ar_acf_fit: lines 154-191 *)

\* lines 167-170: column i (0-based) is x[i+1 : n-p+i+1]; the matrix by rows
RegressorMatrix(xs, pp) ==
    LET n == Len(xs)
        col(ii) == PySlice(xs, ii, n - pp + ii)
    IN  Tup([r \in 1..(n - pp) |-> Tup([ii \in 1..pp |-> col(ii)[r]])])

\* line 171: y = x[:n-p]
Target(xs, pp) == PySlice(xs, 0, Len(xs) - pp)

Transpose(A, ncols) ==
    Tup([c \in 1..ncols |-> Tup([r \in 1..Len(A) |-> A[r][c]])])

Trace(G) == RSum([k \in 1..Len(G) |-> G[k][k]])

\* X'X and X'y from the transpose At of X
Gram(At) == Tup([r \in 1..Len(At) |-> Tup([c \in 1..Len(At) |-> Inner(At[r], At[c])])])
Moment(At, b) == Tup([r \in 1..Len(At) |-> Inner(At[r], b)])

\* The least-squares solution from the normal equations G.v = g
NormalSolve(G, g) ==
    Let1(LAMBDA sol :
            IF sol.status = "ok" THEN sol.val
            ELSE IF Trace(G) = Zero THEN Zeros(Len(g))
            ELSE Tup([r \in 1..Len(g) |-> RDiv(g[r], Trace(G))]),
         LinSolve(G, g))

\* line 172: np.linalg.lstsq(X, y)[0] for a matrix of pp <= 2 columns: the
\* solution of the normal equations when X has full column rank, and the
\* minimum-norm least-squares solution otherwise (rank 0: zero; rank 1:
\* X'y / trace(X'X)).
Lstsq(A, b, pp) ==
    Let1(LAMBDA At : Let2(LAMBDA G, g : NormalSolve(G, g), Gram(At), Moment(At, b)),
         Transpose(A, pp))

\* np.mean(v**2)
MeanSquare(v) ==
    RDiv(RSum([k \in 1..Len(v) |-> RMul(v[k], v[k])]), Rat(Len(v), 1))

\* lines 174-180: cov_objective(ar_coef)
CovObjective(xs, ml, coef) ==
    Let2(LAMBDA acf_ar, acf_x :
            IF acf_ar.status # "ok" THEN acf_ar
            ELSE IF acf_x.status # "ok" THEN acf_x
            ELSE Ok(<<MeanSquare([k \in 1..Len(acf_x.val) |->
                                     RSub(acf_ar.val[k], acf_x.val[k])])>>),
         ArmaAcf([ar |-> coef, ma |-> <<>>], ml),
         Acf(xs, ml, None))

\* Coefficient vectors the optimizer may end on
FminVals == {Rat(-1, 2), Rat(1, 2), One}

\* Whether the optimizer started at an objective f0 may end on a point of
\* objective f
FminAccepts(f0, f) ==
    /\ f.status = "ok"
    /\ IsFinite(f0.val[1]) => IsFinite(f.val[1]) /\ RLeq(f.val[1], f0.val[1])

\* lines 184-185: fmin(cov_objective, ar_coef0, xtol=1e-6, ftol=1e-6).  The
\* simplex search itself is scipy's; what is kept of it is that it starts by
\* evaluating the objective at ar_coef0, and that the vertex it returns has
\* an objective no greater than that of ar_coef0 when that one is a finite
\* number.  The coefficient vectors it may return are drawn from FminVals,
\* besides ar_coef0 itself.
FminResults(xs, ml, seed, f0) ==
    {c \in [1..Len(seed) -> FminVals] \cup {seed} :
        c = seed \/ FminAccepts(f0, CovObjective(xs, ml, c))}

\* ResidualVariance with the two variances multiplied instead of divided
ResidualVarianceProduct(xs, coef) ==
    Let2(LAMBDA a, m :
            IF a.status # "ok" THEN a
            ELSE IF m.status # "ok" THEN m
            ELSE Ok(<<RMul(a.val[1], m.val[1])>>),
         Acov(xs, 0, None),
         ArmaAcov([ar |-> coef, ma |-> <<>>], 0, One))

\* line 189: (acov(x, 0)/arma_acov({'ar':ar_coef, 'ma':[]}, 0))[0]
ResidualVariance(xs, coef) ==
    Let2(LAMBDA a, m :
            IF a.status # "ok" THEN a
            ELSE IF m.status # "ok" THEN m
            ELSE Ok(<<RDiv(a.val[1], m.val[1])>>),
         Acov(xs, 0, None),
         ArmaAcov([ar |-> coef, ma |-> <<>>], 0, One))

\* lines 163-171
FitRegress ==
    /\ pc = "fit_entry"
    /\ X' = RegressorMatrix(x, p)
    /\ y' = Target(x, p)
    /\ pc' = "fit_seed"
    /\ UNCHANGED <<ret, x, maxlags, i, ar_coef, innov_var, p, ar_coef0, res_var,
                   acovVars, armaVars, ssVars>>

\* line 172
FitSeed ==
    /\ pc = "fit_seed"
    /\ ar_coef0' = Lstsq(X, y, p)
    /\ pc' = "fit_optimize"
    /\ UNCHANGED <<ret, x, maxlags, i, ar_coef, innov_var, p, X, y, res_var,
                   acovVars, armaVars, ssVars>>

\* lines 182-185
FitOptimize ==
    /\ pc = "fit_optimize"
    /\ ~maxlags.none
    /\ \E f0 \in {CovObjective(x, maxlags.v, ar_coef0)} :
           IF f0.status # "ok"
           THEN ret' = f0 /\ pc' = "raised" /\ ar_coef' = ar_coef
           ELSE /\ ar_coef' \in FminResults(x, maxlags.v, ar_coef0, f0)
                /\ pc' = "fit_rescale"
                /\ ret' = ret
    /\ UNCHANGED <<x, maxlags, i, innov_var, fitVars, acovVars, armaVars, ssVars>>

\* lines 186-187
FitKeepSeed ==
    /\ pc = "fit_optimize"
    /\ maxlags.none
    /\ ar_coef' = ar_coef0
    /\ pc' = "fit_rescale"
    /\ UNCHANGED <<ret, x, maxlags, i, innov_var, fitVars, acovVars, armaVars, ssVars>>

\* lines 189-191
FitRescale ==
    /\ pc = "fit_rescale"
    /\ \E r \in {ResidualVariance(x, ar_coef)} :
           IF r.status = "ok"
           THEN /\ res_var' = r.val[1]
                /\ ret' = Ok(<<ar_coef, r.val[1]>>)
                /\ pc' = "done"
           ELSE /\ res_var' = res_var
                /\ ret' = r
                /\ pc' = "raised"
    /\ UNCHANGED <<x, maxlags, i, ar_coef, innov_var, p, X, y, ar_coef0,
                   acovVars, armaVars, ssVars>>

\* Bounds of the fit's inputs
FitMaxN == 3
MaxFitLag == 2

\* Orders fitted (the script fits p = 2; Lstsq covers p <= 2)
FitOrders == {1, 2}

FitVals == {Rat(-1, 1), Zero, One, Rat(2, 1)}

FitInit ==
    /\ pc = "fit_entry"
    /\ p \in FitOrders
    /\ x \in UNION {[1..n -> FitVals] : n \in (p + 1)..FitMaxN}
    /\ maxlags \in {NoneInt} \cup {Given(k) : k \in 1..MaxFitLag}
    /\ X = <<>>
    /\ y = <<>>
    /\ ar_coef0 = <<>>
    /\ ar_coef = <<>>
    /\ res_var = Zero
    /\ ret = NoRet
    /\ i = 0
    /\ innov_var = One
    /\ AcovIdle
    /\ ArmaIdle
    /\ SSIdle

FitNext == FitRegress \/ FitSeed \/ FitOptimize \/ FitKeepSeed \/ FitRescale

SpecFit == FitInit /\ [][FitNext]_vars

---------------------------------------------------------------------------
(* Properties of ar_acf_fit *)

FittedModel == [ar |-> ar_coef, ma |-> <<>>]

\* acov(x, 0)[0]
EmpiricalVar == Acov(x, 0, None).val[1]

\* arma_acov({ar: ar_coef, ma: []}, 0)[0]
UnitModelVar == ArmaAcov(FittedModel, 0, One).val[1]

\* arma_acov({ar: ar_coef, ma: []}, 0, innov_var=res_var)[0]
RescaledModelVar == ArmaAcov(FittedModel, 0, res_var).val[1]

\* ar_acf_fit has returned (ar_coef, res_var) for a sample of positive
\* lag-0 autocovariance
FitReturned ==
    /\ pc = "done"
    /\ ret.status = "ok"
    /\ ret.val = <<ar_coef, res_var>>
    /\ EmpiricalVar # Zero

C10_RegressOnPreceding ==
    (pc # "fit_entry") =>
        LET N == Len(x)
            Xi == RegressorMatrix(PyRange(N), p)
            yi == Target(PyRange(N), p)
        IN  /\ Len(X) = N - p
            /\ Len(y) = N - p
            /\ \A r \in 1..(N - p) : \A ii \in 0..(p - 1) :
                  Xi[r][ii + 1] = yi[r] - (ii + 1)

---------------------------------------------------------------------------
(* State-space model of the speed and its prediction and simulation
   trajectories (script, lines 45-46 and 219-277).  The matrices are
   sequences of rows, as numpy 2-d arrays are. *)

VecAdd(a, b) == Tup([k \in 1..Len(a) |-> RAdd(a[k], b[k])])

\* M[:, j] with j counted from 0
Column(M, j) == Tup([r \in 1..Len(M) |-> M[r][j + 1]])

\* M[:, j] = v
SetColumn(M, j, v) ==
    Tup([r \in 1..Len(M) |-> Tup([M[r] EXCEPT ![j + 1] = v[r]])])

\* np.zeros((rows, cols))
ZerosMat(rows, cols) == Tup([r \in 1..rows |-> Zeros(cols)])

\* np.diff(s)/dt with the first derivative not scaled by 1/dt
AccelUnscaled(s, step) ==
    <<Zero>> \o Tup([k \in 1..(Len(s) - 1) |-> RSub(s[k + 1], s[k])])

\* lines 45-46: accel = concatenate(([0.], diff(speed)/dt))
Accel(s, step) ==
    <<Zero>> \o Tup([k \in 1..(Len(s) - 1) |-> RDiv(RSub(s[k + 1], s[k]), step)])

\* T_AR2 without the -1 of its lower-left entry
T_AR2NoUnit(p1, p2, step) ==
    << <<RAdd(p1, p2), RNeg(RMul(step, p2))>>,
       <<RDiv(RAdd(p1, p2), step), RNeg(p2)>> >>

\* lines 224-225: [[p1+p2, -dt*p2], [(p1+p2-1)/dt, -p2]]
T_AR2(p1, p2, step) ==
    << <<RAdd(p1, p2), RNeg(RMul(step, p2))>>,
       <<RDiv(RSub(RAdd(p1, p2), One), step), RNeg(p2)>> >>

\* lines 257-258: [[1, 1/dt], [1/dt, 1/dt**2]] * innov_var
InnovCov(step, iv) ==
    << <<RMul(One, iv), RMul(RDiv(One, step), iv)>>,
       <<RMul(RDiv(One, step), iv), RMul(RDiv(One, RMul(step, step)), iv)>> >>

\* Standardised draws of the random generator
NoiseVals == {Rat(-1, 1), Zero, One}

\* line 273: the samples multivariate_normal([0,0], cov_) can give.  The
\* covariance of lines 257-258 has rank one at most: every sample is a
\* multiple of its first column, and the zero matrix gives the sample 0.
InnovSamples(cov_) ==
    IF \A r \in 1..2 : \A c \in 1..2 : cov_[r][c] = Zero
    THEN {<<Zero, Zero>>}
    ELSE {ScaleSeq(Column(cov_, 0), z) : z \in NoiseVals}

\* line 273: multivariate_normal([0,0], cov_, n).T, a 2 x n array
InnovDraws(cov_, n) ==
    {Tup([r \in 1..2 |-> Tup([k \in 1..n |-> cols[k][r]])]) :
        cols \in [1..n -> InnovSamples(cov_)]}

\* line 277 without the transition matrix
SimStepNoT(TT, v, e) == VecAdd(v, e)

\* line 277: np.dot(T, X_traj[:,i-1]) + err_sim[:,i-1]
SimStep(TT, v, e) == VecAdd(MatVec(TT, v), e)

\* line 276: np.dot(T, X_prev[:,i-1])
PredStep(TT, v) == MatVec(TT, v)

\* lines 45-46
SSDerive ==
    /\ pc = "ss_entry"
    /\ accel' = Accel(speed, dt)
    /\ pc' = "ss_convert"
    /\ UNCHANGED <<ret, x, maxlags, i, ar_coef, innov_var, acovVars, armaVars,
                   p, X, y, ar_coef0, res_var, speed, dt, T, X_prev, X_traj, err_sim>>

\* lines 221-226
SSConvert ==
    /\ pc = "ss_convert"
    /\ X' = <<speed, accel>>
    /\ T' = T_AR2(ar_coef[1], ar_coef[2], dt)
    /\ pc' = "ss_trajectories"
    /\ UNCHANGED <<ret, x, maxlags, i, ar_coef, innov_var, acovVars, armaVars,
                   p, y, ar_coef0, res_var, speed, accel, dt, X_prev, X_traj, err_sim>>

\* Number of steps of the trajectories (1000 at line 265)
Horizon == 2

\* lines 265-269
SSTrajectories ==
    /\ pc = "ss_trajectories"
    /\ maxlags' = Horizon
    /\ X_prev' = SetColumn(ZerosMat(2, Horizon + 1), 0, Column(X, Len(speed) - 1))
    /\ X_traj' = SetColumn(ZerosMat(2, Horizon + 1), 0, Column(X, Len(speed) - 1))
    /\ pc' = "ss_draw"
    /\ UNCHANGED <<ret, x, i, ar_coef, innov_var, acovVars, armaVars, fitVars,
                   speed, accel, dt, T, err_sim>>

\* lines 257-258 and 272-273
SSDraw ==
    /\ pc = "ss_draw"
    /\ err_sim' \in InnovDraws(InnovCov(dt, innov_var), maxlags)
    /\ i' = 1
    /\ pc' = "ss_loop"
    /\ UNCHANGED <<ret, x, maxlags, ar_coef, innov_var, acovVars, armaVars, fitVars,
                   speed, accel, dt, T, X_prev, X_traj>>

\* lines 275-277, one iteration
SSStep ==
    /\ pc = "ss_loop"
    /\ i < maxlags + 1
    /\ X_prev' = SetColumn(X_prev, i, PredStep(T, Column(X_prev, i - 1)))
    /\ X_traj' = SetColumn(X_traj, i,
                           SimStep(T, Column(X_traj, i - 1), Column(err_sim, i - 1)))
    /\ i' = i + 1
    /\ UNCHANGED <<pc, ret, x, maxlags, ar_coef, innov_var, acovVars, armaVars, fitVars,
                   speed, accel, dt, T, err_sim>>

\* line 275, end of the range
SSEnd ==
    /\ pc = "ss_loop"
    /\ i = maxlags + 1
    /\ pc' = "done"
    /\ UNCHANGED <<ret, x, maxlags, i, ar_coef, innov_var, acovVars, armaVars, fitVars,
                   ssVars>>

\* Bound of the length of the speed record
MaxPts == 3

SpeedVals == {Rat(-1, 1), One, Rat(2, 1)}

\* dt is 0.1 at line 32
DtVals == {Rat(1, 10), One}

\* Results of the AR(2) fit of line 205
ArFits == {<<Rat(9, 10), Rat(-1, 20)>>, <<Rat(1, 2), Rat(1, 3)>>, <<One, Rat(-1, 1)>>}

InnovFits == {Zero, One}

SSInit ==
    /\ pc = "ss_entry"
    /\ speed \in UNION {[1..n -> SpeedVals] : n \in 1..MaxPts}
    /\ dt \in DtVals
    /\ ar_coef \in ArFits
    /\ innov_var \in InnovFits
    /\ accel = <<>>
    /\ T = <<>>
    /\ X_prev = <<>>
    /\ X_traj = <<>>
    /\ err_sim = <<>>
    /\ maxlags = 0
    /\ i = 0
    /\ x = <<>>
    /\ ret = NoRet
    /\ AcovIdle
    /\ ArmaIdle
    /\ FitIdle

SSNext == SSDerive \/ SSConvert \/ SSTrajectories \/ SSDraw \/ SSStep \/ SSEnd

SpecSS == SSInit /\ [][SSNext]_vars

---------------------------------------------------------------------------
(* Properties of the state-space model *)

Converted == pc \in {"ss_trajectories", "ss_draw", "ss_loop", "done"}

Started == pc \in {"ss_draw", "ss_loop", "done"}

Drawn == pc \in {"ss_loop", "done"}

SpecExample == ar_coef = <<Rat(9, 10), Rat(-1, 20)>> /\ dt = Rat(1, 10)

\* C5 as stated: the state-space conversion applied to ar_coef = (0.9, -0.05)
\* with dt = 0.1 yields T = [[0.85, 0.005], [-0.95, 0.05]].
C5_Original ==
    (Converted /\ SpecExample) =>
        T = << <<Rat(85, 100), Rat(5, 1000)>>, <<Rat(-95, 100), Rat(5, 100)>> >>

\* C5 amended: the state-space conversion applied to ar_coef = (0.9, -0.05)
\* with dt = 0.1 yields T = [[0.85, 0.005], [-1.5, 0.05]].
C5_TransitionMatrix ==
    (Converted /\ SpecExample) =>
        T = << <<Rat(85, 100), Rat(5, 1000)>>, <<Rat(-15, 10), Rat(5, 100)>> >>

C5_Witness ==
    /\ Converted
    /\ SpecExample
    /\ T[2][1] = Rat(-3, 2)

\* The speed record continued by k steps of the noise-free AR(2) recursion
\* s[t] = p1*s[t-1] + p2*s[t-2]
RECURSIVE AR2Continue(_, _, _, _)
AR2Continue(s, p1, p2, k) ==
    IF k = 0 THEN s
    ELSE AR2Continue(
             Append(s, RAdd(RMul(p1, s[Len(s)]), RMul(p2, s[Len(s) - 1]))),
             p1, p2, k - 1)

\* The state (s[t], accel[t]) of a speed sequence s at t >= 1 (from 0), with
\* accel[t] = (s[t] - s[t-1])/dt
StateAt(s, t) == <<s[t + 1], RDiv(RSub(s[t + 1], s[t]), dt)>>

\* C6: the conversion of the AR(2) model to the state-space model is exact.
\* For any coefficients (p1, p2), any dt > 0 and a speed sequence that
\* follows the noise-free AR(2) recursion s[t] = p1*s[t-1] + p2*s[t-2], with
\* accel[t] = (s[t] - s[t-1])/dt, stepping the state (s[t-1], accel[t-1]) by
\* T gives exactly (s[t], accel[t]): every column the prediction loop has
\* computed from the last observed state is the state of the AR(2)
\* continuation of the speed record at that step.
C6_LockStep ==
    (Drawn /\ Len(speed) >= 2 /\ RLeq(Zero, dt) /\ dt # Zero) =>
        LET n == Len(speed)
            s == AR2Continue(speed, ar_coef[1], ar_coef[2], i - 1)
        IN  \A k \in 0..(i - 1) : Column(X_prev, k) = StateAt(s, n - 1 + k)

C6_Witness ==
    /\ pc = "done"
    /\ i = maxlags + 1
    /\ Len(speed) >= 2
    /\ dt # One
    /\ Column(X_prev, maxlags) =
           StateAt(AR2Continue(speed, ar_coef[1], ar_coef[2], maxlags),
                   Len(speed) - 1 + maxlags)
    /\ Column(X_prev, maxlags) # Column(X_prev, 0)
    /\ Column(X_prev, maxlags)[2] # Zero

NoInnovation == \A r \in 1..2 : \A k \in 1..maxlags : err_sim[r][k] = Zero

\* C7: the prediction trajectory X_prev and the simulated trajectory X_traj
\* start from the same state, the last observed one, and every step
\* advances both by the same T, the simulated one adding its innovation;
\* so when every injected innovation is zero (the covariance is the zero
\* matrix), X_traj[:,k] = X_prev[:,k] for every k in 0..maxlags.
C7_SimulationIsPrediction ==
    /\ Started =>
          /\ Column(X_prev, 0) = Column(X, Len(speed) - 1)
          /\ Column(X_traj, 0) = Column(X, Len(speed) - 1)
    /\ Drawn =>
          /\ \A k \in 1..(i - 1) :
                /\ Column(X_prev, k) = MatVec(T, Column(X_prev, k - 1))
                /\ Column(X_traj, k) =
                       VecAdd(MatVec(T, Column(X_traj, k - 1)), Column(err_sim, k - 1))
          /\ innov_var = Zero => NoInnovation
          /\ NoInnovation => X_traj = X_prev

C7_Witness ==
    /\ pc = "done"
    /\ innov_var = Zero
    /\ NoInnovation
    /\ X_traj = X_prev
    /\ Column(X_traj, maxlags) # Column(X_traj, 0)
    /\ Column(X_traj, maxlags) # <<Zero, Zero>>

====
